---- MODULE Spec2Model ----
(***************************************************************************)
(* A model of the Mitrastar GPT-2541GNAC integration:                      *)
(*   router.py   the SSH session, the three extractors, get_all_data       *)
(*   __init__.py the coordinator's update method                          *)
(*   sensor.py   MitrastarSensor and MitrastarSpeedSensor                  *)
(*                                                                         *)
(* Text is modelled at the level the regular expressions of router.py see  *)
(* it: a line is its leading whitespace, its whitespace-separated tokens   *)
(* and the section-header literals it contains; a token is a sequence of   *)
(* characters (one-character strings).  Keys of the snapshot are character *)
(* sequences built the way the f-strings build them.                       *)
(***************************************************************************)
EXTENDS Integers, Sequences, FiniteSets, TLC

\* None, and a value that is not None
None == <<>>
Some(v) == <<v>>

\* ------------------------------------------------------------------------
\* Characters, tokens and the conversions int() and float()
\* ------------------------------------------------------------------------

Digits == {"0", "1", "2", "3", "4", "5", "6", "7", "8", "9"}

Letters ==
    {"a", "b", "c", "d", "e", "f", "g", "h", "i", "j", "k", "l", "m", "n",
     "o", "p", "q", "r", "s", "t", "u", "v", "w", "x", "y", "z",
     "A", "B", "C", "D", "E", "F", "G", "H", "I", "J", "K", "L", "M", "N",
     "O", "P", "Q", "R", "S", "T", "U", "V", "W", "X", "Y", "Z"}

\* the class \w of the regular expressions
WordChars == Letters \cup Digits \cup {"_"}

\* the class [-\d.] of the laser expressions
LaserChars == Digits \cup {"-", "."}

DigitVal(c) ==
    CASE c = "0" -> 0 [] c = "1" -> 1 [] c = "2" -> 2 [] c = "3" -> 3
      [] c = "4" -> 4 [] c = "5" -> 5 [] c = "6" -> 6 [] c = "7" -> 7
      [] c = "8" -> 8 [] c = "9" -> 9

AllIn(tok, class) == \A i \in 1..Len(tok) : tok[i] \in class

\* (\w+), (\d+) followed by \s+ : the whole token is in the class
IsWord(tok) == Len(tok) > 0 /\ AllIn(tok, WordChars)
IsNumber(tok) == Len(tok) > 0 /\ AllIn(tok, Digits)

\* the longest prefix of digits of a token: what a greedy (\d+) that nothing
\* follows in the pattern captures
RECURSIVE DigitPrefix(_)
DigitPrefix(tok) ==
    IF tok = <<>> \/ Head(tok) \notin Digits THEN <<>>
    ELSE <<Head(tok)>> \o DigitPrefix(Tail(tok))

\* int(s) of a string of digits
RECURSIVE IntOf(_)
IntOf(tok) ==
    IF tok = <<>> THEN 0
    ELSE 10 * IntOf(SubSeq(tok, 1, Len(tok) - 1)) + DigitVal(tok[Len(tok)])

\* float(s) accepts, of the strings over [-\d.], an optional sign, then digits
\* with at most one point and at least one digit; anything else is ValueError
FloatBody(tok) == IF tok # <<>> /\ Head(tok) = "-" THEN Tail(tok) ELSE tok

FloatOk(tok) ==
    LET b == FloatBody(tok)
        points == {i \in 1..Len(b) : b[i] = "."}
    IN  /\ AllIn(b, Digits \cup {"."})
        /\ Cardinality(points) <= 1
        /\ \E i \in 1..Len(b) : b[i] \in Digits

RECURSIVE Normal(_, _)
Normal(num, scale) ==
    IF scale > 0 /\ num % 10 = 0 THEN Normal(num \div 10, scale - 1)
    ELSE <<num, scale>>

\* the value of float(s): num / 10^scale, in lowest decimal terms
FloatOf(tok) ==
    LET b == FloatBody(tok)
        sign == IF tok # <<>> /\ Head(tok) = "-" THEN -1 ELSE 1
        digs == SelectSeq(b, LAMBDA c : c \in Digits)
        p == IF \E i \in 1..Len(b) : b[i] = "."
             THEN CHOOSE i \in 1..Len(b) : b[i] = "." ELSE Len(b) + 1
        frac == IF p > Len(b) THEN 0 ELSE Len(b) - p
        n == Normal(IntOf(digs), frac)
    IN  [type |-> "float", num |-> sign * n[1], scale |-> n[2]]

StrVal(tok) == [type |-> "str", str |-> tok]
IntVal(n) == [type |-> "int", int |-> n]

\* ------------------------------------------------------------------------
\* String literals of router.py, as character sequences
\* ------------------------------------------------------------------------

S_Up == <<"U", "p">>
S_Disabled == <<"D", "i", "s", "a", "b", "l", "e", "d">>
S_Down == <<"D", "o", "w", "n">>
S_Received == <<"R", "e", "c", "e", "i", "v", "e", "d">>
S_Transmitted == <<"T", "r", "a", "n", "s", "m", "i", "t", "t", "e", "d">>
S_Counters == <<"C", "o", "u", "n", "t", "e", "r", "s", ":">>
S_lan == <<"l", "a", "n">>
S_wan == <<"w", "a", "n">>
S_rx == <<"r", "x">>
S_tx == <<"t", "x">>
S_us == <<"_">>
S_status == <<"s", "t", "a", "t", "u", "s">>
S_vlan_id == <<"v", "l", "a", "n", "_", "i", "d">>
S_total_bytes == <<"t", "o", "t", "a", "l", "_", "b", "y", "t", "e", "s">>
S_total_packets == <<"t", "o", "t", "a", "l", "_", "p", "a", "c", "k", "e", "t", "s">>
S_errors == <<"e", "r", "r", "o", "r", "s">>
S_drops == <<"d", "r", "o", "p", "s">>
S_multicast_bytes == <<"m", "u", "l", "t", "i", "c", "a", "s", "t", "_", "b", "y", "t", "e", "s">>
S_multicast_packets == <<"m", "u", "l", "t", "i", "c", "a", "s", "t", "_", "p", "a", "c", "k", "e", "t", "s">>
S_unicast_packets == <<"u", "n", "i", "c", "a", "s", "t", "_", "p", "a", "c", "k", "e", "t", "s">>
S_broadcast_packets == <<"b", "r", "o", "a", "d", "c", "a", "s", "t", "_", "p", "a", "c", "k", "e", "t", "s">>
S_laser_rx_power == <<"l", "a", "s", "e", "r", "_", "r", "x", "_", "p", "o", "w", "e", "r">>
S_laser_tx_power == <<"l", "a", "s", "e", "r", "_", "t", "x", "_", "p", "o", "w", "e", "r">>
S_laser_bias_current == <<"l", "a", "s", "e", "r", "_", "b", "i", "a", "s", "_", "c", "u", "r", "r", "e", "n", "t">>
S_laser_voltage == <<"l", "a", "s", "e", "r", "_", "v", "o", "l", "t", "a", "g", "e">>
S_laser_temperature == <<"l", "a", "s", "e", "r", "_", "t", "e", "m", "p", "e", "r", "a", "t", "u", "r", "e">>
S_dBm == <<"d", "B", "m">>
S_mA == <<"m", "A">>
S_V == <<"V">>
S_C == <<"C">>

\* the eight counter columns, in the order of groups 3..10
CounterFields ==
    <<S_total_bytes, S_total_packets, S_errors, S_drops, S_multicast_bytes,
      S_multicast_packets, S_unicast_packets, S_broadcast_packets>>

StartsWith(tok, lit) == Len(tok) >= Len(lit) /\ SubSeq(tok, 1, Len(lit)) = lit
EndsWith(tok, lit) ==
    Len(tok) >= Len(lit) /\ SubSeq(tok, Len(tok) - Len(lit) + 1, Len(tok)) = lit

\* "<word> Counters:" in line (tokens of a line stand one blank apart where the
\* literal needs it)
Contains(line, word) ==
    \E i \in 1..(Len(line.toks) - 1) :
        EndsWith(line.toks[i], word) /\ StartsWith(line.toks[i + 1], S_Counters)

\* f"{namespace}_{interface}_{current_section}"
KeyPrefix(ns, interface, section) == ns \o S_us \o interface \o S_us \o section

\* f"{key_prefix}_{field}"
Key(prefix, field) == prefix \o S_us \o field

\* {key: value}
Entry(key, value) == [k \in {key} |-> value]

\* dict.update: the entries of new replace those of old
Update(old, new) ==
    [k \in DOMAIN new \cup DOMAIN old |-> IF k \in DOMAIN new THEN new[k] ELSE old[k]]

EmptyDict == <<>>

\* ------------------------------------------------------------------------
\* router.py: the LAN and WAN extractors
\*
\* A line is [lead |-> it starts with whitespace, toks |-> its tokens].
\* ------------------------------------------------------------------------

\* current_section = None; `if match and current_section` tests its truth
NoSection == <<>>

StatusWords == {S_Up, S_Disabled, S_Down}

\* re.match(r"\s+(\w+)\s+(Up|Disabled|Down)\s+(\d+)...\s+(\d+)", line): anchored
\* at the start of the line, not at its end; the last (\d+) is greedy
LanMatch(line) ==
    /\ line.lead
    /\ Len(line.toks) >= 10
    /\ IsWord(line.toks[1])
    /\ line.toks[2] \in StatusWords
    /\ \A g \in 3..9 : IsNumber(line.toks[g])
    /\ DigitPrefix(line.toks[10]) # <<>>

\* re.match(r"\s+(\S+)\s+(\d+)\s+(\d+)...\s+(\d+)", line)
WanMatch(line) ==
    /\ line.lead
    /\ Len(line.toks) >= 10
    /\ \A g \in 2..9 : IsNumber(line.toks[g])
    /\ DigitPrefix(line.toks[10]) # <<>>

\* match.group(g) of a matching line, g in 1..10
Group(line, g) ==
    IF g = 10 THEN DigitPrefix(line.toks[10])
    ELSE IF g <= Len(line.toks) THEN line.toks[g] ELSE <<>>

\* GroupEntries gone wrong: the counters are stored as matched, without int()
GroupEntries_Untyped(prefix, first, line) ==
    LET keys == [j \in 1..9 |-> Key(prefix, (<<first>> \o CounterFields)[j])]
        column(k) == CHOOSE j \in 1..9 : keys[j] = k
    IN  [k \in {keys[j] : j \in 1..9} |-> StrVal(Group(line, 1 + column(k)))]

\* GroupEntries gone wrong: every counter is read one column too far left
GroupEntries_Shifted(prefix, first, line) ==
    LET keys == [j \in 1..9 |-> Key(prefix, (<<first>> \o CounterFields)[j])]
        column(k) == CHOOSE j \in 1..9 : keys[j] = k
    IN  [k \in {keys[j] : j \in 1..9} |->
            IF column(k) = 1 THEN StrVal(Group(line, 2))
            ELSE IF column(k) = 2 THEN IntVal(IntOf(Group(line, 3)))
            ELSE IntVal(IntOf(Group(line, column(k))))]

\* the nine assignments data[f"{key_prefix}_..."] = ... of one matching line
GroupEntries(prefix, first, line) ==
    LET keys == [j \in 1..9 |-> Key(prefix, (<<first>> \o CounterFields)[j])]
        column(k) == CHOOSE j \in 1..9 : keys[j] = k
    IN  [k \in {keys[j] : j \in 1..9} |->
            IF column(k) = 1 THEN StrVal(Group(line, 2))
            ELSE IntVal(IntOf(Group(line, 1 + column(k))))]

\* SectionAfter gone wrong: the first header seen stays the section
SectionAfter_First(line, current_section) ==
    IF current_section # NoSection THEN current_section
    ELSE IF Contains(line, S_Received) THEN S_rx
    ELSE IF Contains(line, S_Transmitted) THEN S_tx
    ELSE current_section

\* the section after a line: the two `in` tests, "Received" first
SectionAfter(line, current_section) ==
    IF Contains(line, S_Received) THEN S_rx
    ELSE IF Contains(line, S_Transmitted) THEN S_tx
    ELSE current_section

IsHeader(line) == Contains(line, S_Received) \/ Contains(line, S_Transmitted)

\* an extractor that stores the status of a row before it has seen the row's
\* counters
LanLine_Partial(line, current_section, data) ==
    IF IsHeader(line) THEN data
    ELSE IF LanMatch(line) /\ current_section # NoSection
         THEN Update(data, GroupEntries(KeyPrefix(S_lan, Group(line, 1), current_section),
                                        S_status, line))
         ELSE IF /\ line.lead
                 /\ Len(line.toks) >= 2
                 /\ IsWord(line.toks[1])
                 /\ line.toks[2] \in StatusWords
                 /\ current_section # NoSection
              THEN Update(data, Entry(Key(KeyPrefix(S_lan, line.toks[1], current_section),
                                          S_status),
                                      StrVal(line.toks[2])))
              ELSE data

\* one iteration of the loop of _parse_lan_stats
LanLine(line, current_section, data) ==
    IF IsHeader(line) THEN data
    ELSE IF LanMatch(line) /\ current_section # NoSection
         THEN Update(data, GroupEntries(KeyPrefix(S_lan, Group(line, 1), current_section),
                                        S_status, line))
         ELSE data

\* one iteration of the loop of _parse_wan_stats
WanLine(line, current_section, data) ==
    IF IsHeader(line) THEN data
    ELSE IF WanMatch(line) /\ current_section # NoSection
         THEN Update(data, GroupEntries(KeyPrefix(S_wan, Group(line, 1), current_section),
                                        S_vlan_id, line))
         ELSE data

RECURSIVE LanLoop(_, _, _)
LanLoop(lines, current_section, data) ==
    IF lines = <<>> THEN data
    ELSE LanLoop(Tail(lines), SectionAfter(Head(lines), current_section),
                 LanLine(Head(lines), current_section, data))

RECURSIVE WanLoop(_, _, _)
WanLoop(lines, current_section, data) ==
    IF lines = <<>> THEN data
    ELSE WanLoop(Tail(lines), SectionAfter(Head(lines), current_section),
                 WanLine(Head(lines), current_section, data))

\* an extractor's outcome: what it returns, or that it raised
Returned(data) == [raised |-> FALSE, data |-> data]
Raised == [raised |-> TRUE, data |-> EmptyDict]

_parse_lan_stats(output) == Returned(LanLoop(output, NoSection, EmptyDict))

_parse_wan_stats(output) == Returned(WanLoop(output, NoSection, EmptyDict))

\* ------------------------------------------------------------------------
\* router.py: the laser extractor
\* ------------------------------------------------------------------------

L_rx_power == <<<<"R", "x">>, <<"O", "p", "t", "i", "c", "a", "l">>, <<"P", "o", "w", "e", "r">>>>
L_tx_power == <<<<"T", "x">>, <<"O", "p", "t", "i", "c", "a", "l">>, <<"P", "o", "w", "e", "r">>>>
L_bias == <<<<"T", "x">>, <<"B", "i", "a", "s">>, <<"C", "u", "r", "r", "e", "n", "t">>>>
L_voltage == <<<<"S", "u", "p", "p", "l", "y">>, <<"v", "o", "l", "t", "a", "g", "e">>>>
L_temp == <<<<"S", "F", "F">>, <<"T", "e", "m", "p", "e", "r", "a", "t", "u", "r", "e">>>>
S_eq == <<"=">>

\* the tokens of the whole output, in order; bol marks a line's first token
\* (re.search spans lines: \s matches the line break, a literal blank does not)
RECURSIVE Flatten(_)
Flatten(lines) ==
    IF lines = <<>> THEN <<>>
    ELSE [i \in 1..Len(Head(lines).toks) |->
              [tok |-> Head(lines).toks[i], bol |-> (i = 1)]]
         \o Flatten(Tail(lines))

\* the pattern r"<label>\s+=\s+([-\d.]+)\s+<unit>" matches with its label
\* starting in token i
LaserMatchAt(flat, i, label, unit) ==
    LET n == Len(label) IN
    /\ i + n + 2 <= Len(flat)
    /\ IF n = 1 THEN EndsWith(flat[i].tok, label[1])
       ELSE /\ EndsWith(flat[i].tok, label[1])
            /\ \A j \in 2..n : flat[i + j - 1].tok = label[j] /\ ~flat[i + j - 1].bol
    /\ flat[i + n].tok = S_eq
    /\ Len(flat[i + n + 1].tok) > 0
    /\ AllIn(flat[i + n + 1].tok, LaserChars)
    /\ StartsWith(flat[i + n + 2].tok, unit)

NoMatch == [found |-> FALSE, text |-> <<>>]

\* re.search(...): the leftmost match and its group(1), or no match
LaserSearch(flat, label, unit) ==
    LET at == {i \in 1..Len(flat) : LaserMatchAt(flat, i, label, unit)}
    IN  IF at = {} THEN NoMatch
        ELSE LET i == CHOOSE i \in at : \A j \in at : i <= j
             IN  [found |-> TRUE, text |-> flat[i + Len(label) + 1].tok]

\* the five lookups, in the order of the code
LaserLookups ==
    << [key |-> S_laser_rx_power, label |-> L_rx_power, unit |-> S_dBm],
       [key |-> S_laser_tx_power, label |-> L_tx_power, unit |-> S_dBm],
       [key |-> S_laser_bias_current, label |-> L_bias, unit |-> S_mA],
       [key |-> S_laser_voltage, label |-> L_voltage, unit |-> S_V],
       [key |-> S_laser_temperature, label |-> L_temp, unit |-> S_C] >>

\* float(match.group(1)) raises ValueError on a string float() rejects
RECURSIVE LaserFrom(_, _, _)
LaserFrom(flat, n, data) ==
    IF n > Len(LaserLookups) THEN Returned(data)
    ELSE LET look == LaserLookups[n]
             m == LaserSearch(flat, look.label, look.unit)
         IN  IF ~m.found THEN LaserFrom(flat, n + 1, data)
             ELSE IF ~FloatOk(m.text) THEN Raised
             ELSE LaserFrom(flat, n + 1, Update(data, Entry(look.key, FloatOf(m.text))))

_parse_laser_stats(output) == LaserFrom(Flatten(output), 1, EmptyDict)

\* ------------------------------------------------------------------------
\* router.py: get_all_data, and the update method of __init__.py
\* ------------------------------------------------------------------------

Commands == <<"showlanstats", "showwanstats", "lasercheck">>

\* what _execute_multiple_commands hands to its caller
SessionRaised(kind) == [raised |-> TRUE, error |-> kind, results |-> <<>>]
SessionReturned(results) == [raised |-> FALSE, error |-> "none", results |-> results]

\* the body of the try block, one extractor after the other, each result
\* merged before the next extractor runs; an extractor that raises leaves the
\* try block with what was merged so far
get_all_data(session) ==
    IF session.raised THEN EmptyDict
    ELSE LET results == session.results
             lan == IF "showlanstats" \in DOMAIN results
                    THEN _parse_lan_stats(results["showlanstats"])
                    ELSE Returned(EmptyDict)
             d1 == Update(EmptyDict, lan.data)
             wan == IF "showwanstats" \in DOMAIN results
                    THEN _parse_wan_stats(results["showwanstats"])
                    ELSE Returned(EmptyDict)
             d2 == Update(d1, wan.data)
             laser == IF "lasercheck" \in DOMAIN results
                      THEN _parse_laser_stats(results["lasercheck"])
                      ELSE Returned(EmptyDict)
             d3 == Update(d2, laser.data)
         IN  IF lan.raised THEN EmptyDict
             ELSE IF wan.raised THEN d1
             ELSE IF laser.raised THEN d2
             ELSE d3

\* async_update_data: get_all_data's return value; UpdateFailed is raised only
\* if get_all_data raises, and get_all_data catches every Exception itself
async_update_data(session) == [failed |-> FALSE, data |-> get_all_data(session)]

\* CoordinatorData gone wrong: a returned mapping is merged into the data
CoordinatorData_Merges(update, old) ==
    IF update.failed THEN old ELSE Update(old, update.data)

\* the coordinator after a refresh: a returned mapping becomes its data, an
\* UpdateFailed keeps the data and clears last_update_success
CoordinatorData(update, old) == IF update.failed THEN old ELSE update.data
CoordinatorSuccess(update) == ~update.failed

\* ------------------------------------------------------------------------
\* Bounds, and the texts the device answers with
\* ------------------------------------------------------------------------

\* counters reported by the device range over 0..MaxValue
MaxValue == 2
\* datetime.now() ranges over 0..MaxTime
MaxTime == 3
\* frames native_value may nest before RecursionError (sys.getrecursionlimit)
RecursionLimit == 2
\* consecutive failed polls that are counted
MaxFailures == 2

Values == 0..MaxValue
Times == 0..MaxTime

DigitChar(d) ==
    CASE d = 0 -> "0" [] d = 1 -> "1" [] d = 2 -> "2" [] d = 3 -> "3"
      [] d = 4 -> "4" [] d = 5 -> "5" [] d = 6 -> "6" [] d = 7 -> "7"
      [] d = 8 -> "8" [] d = 9 -> "9"

\* the decimal numeral the device prints for n
RECURSIVE Str(_)
Str(n) == IF n < 10 THEN <<DigitChar(n)>> ELSE Str(n \div 10) \o <<DigitChar(n % 10)>>

T_eth1 == <<"e", "t", "h", "1">>
T_ppp == <<"p", "p", "p", "0", ".", "1">>
T_vlan == <<"6">>

Line(lead, toks) == [lead |-> lead, toks |-> toks]

\* "".split("\n") is one empty line
EmptyText == <<Line(FALSE, <<>>)>>

RxHeader == Line(FALSE, <<S_Received, S_Counters>>)
TxHeader == Line(FALSE, <<S_Transmitted, S_Counters>>)

\* a row of showlanstats / showwanstats with total_bytes = v
LanRow(name, status, v) ==
    Line(TRUE, <<name, status, Str(v), Str(1), Str(0), Str(0), Str(0), Str(0), Str(1), Str(0)>>)
WanRow(name, vlan, v) ==
    Line(TRUE, <<name, vlan, Str(v), Str(1), Str(0), Str(0), Str(0), Str(0), Str(1), Str(0)>>)

LanReport(v) == <<RxHeader, LanRow(T_eth1, S_Up, v)>>
WanReport(v) == <<RxHeader, WanRow(T_ppp, T_vlan, v)>>
LaserReport(power) ==
    <<Line(FALSE, L_rx_power \o <<S_eq, power, S_dBm>>)>>

\* f"{prefix}_total_bytes" of the speed sensors async_setup_entry creates for
\* eth1 (rx) and ppp0.1 (rx)
K_lan_eth1_rx_total_bytes == Key(KeyPrefix(S_lan, T_eth1, S_rx), S_total_bytes)
K_wan_ppp_rx_total_bytes == Key(KeyPrefix(S_wan, T_ppp, S_rx), S_total_bytes)

\* MitrastarSensor.native_value: self.coordinator.data.get(self._key)
SensorValue(key, d) == IF key \in DOMAIN d THEN Some(d[key]) ELSE None

\* available of MitrastarSensor and of MitrastarSpeedSensor
Available(key, success, d) == success /\ key \in DOMAIN d

\* the speed sensors of the model
SpeedKeys == {K_lan_eth1_rx_total_bytes}

\* ------------------------------------------------------------------------
\* sensor.py: MitrastarSpeedSensor
\*
\* A sensor is [last_value, last_update, cached]; cached = None while the
\* attribute _cached_speed does not exist.  Rates are in hundredths.
\* ------------------------------------------------------------------------

NewSensor == [last_value |-> None, last_update |-> None, cached |-> None]

\* Round2 gone wrong: the quotient is cut off, not rounded
Round2_Truncated(value_diff, time_diff) == (100 * value_diff) \div time_diff

\* round(value_diff / time_diff, 2), in hundredths, for time_diff > 0: to the
\* nearest hundredth, a tie to the even one
Round2(value_diff, time_diff) ==
    LET n == 100 * value_diff
        q == n \div time_diff
        r == n % time_diff
    IN  IF 2 * r < time_diff THEN q
        ELSE IF 2 * r > time_diff THEN q + 1
        ELSE IF q % 2 = 0 THEN q ELSE q + 1

\* what one call of native_value does: the value it returns (None, or a rate),
\* or the error it raises, the sensor afterwards, and the clock value it read
\* last
Outcome(ret, self, t, branch) ==
    [ret |-> ret, error |-> "none", self |-> self, clock |-> t, branch |-> branch]
RaisedOutcome(kind, self, t) ==
    [ret |-> None, error |-> kind, self |-> self, clock |-> t, branch |-> "raised"]

\* KeyAbsent gone wrong: a missing key forgets the stored reading
KeyAbsent_Forgets(self, t) ==
    [ret |-> None, error |-> "none",
     self |-> [self EXCEPT !.last_value = None, !.last_update = None],
     clock |-> t, branch |-> "absent"]

\* lines 334-339: the key is not in coordinator.data
KeyAbsent(self, t) == Outcome(None, self, t, "absent")

\* FirstObservation gone wrong: the time of the first reading is not stored
FirstObservation_NoTime(self, current_value, current_time) ==
    [ret |-> Some(0), error |-> "none",
     self |-> [self EXCEPT !.last_value = Some(current_value)],
     clock |-> current_time, branch |-> "first"]

\* lines 344-347: no reading stored yet
FirstObservation(self, current_value, current_time) ==
    Outcome(Some(0),
            [self EXCEPT !.last_value = Some(current_value),
                         !.last_update = Some(current_time)],
            current_time, "first")

\* line 353, without the attribute _cached_speed
NoCachedSpeed(self, t) == Outcome(Some(0), self, t, "nonpositive")

\* CounterReset gone wrong: the negative difference is reported as a rate
CounterReset_Negative(self, current_value, current_time) ==
    LET speed == -Round2(self.last_value[1] - current_value,
                         current_time - self.last_update[1])
    IN  [ret |-> Some(speed), error |-> "none",
         self |-> [last_value |-> Some(current_value),
                   last_update |-> Some(current_time),
                   cached |-> Some(speed)],
         clock |-> current_time, branch |-> "reset"]

\* lines 359-362: the counter went back
CounterReset(self, current_value, current_time) ==
    Outcome(Some(0),
            [self EXCEPT !.last_value = Some(current_value),
                         !.last_update = Some(current_time)],
            current_time, "reset")

\* ComputeSpeed gone wrong: the difference is taken the other way round
ComputeSpeed_Reversed(self, current_value, current_time) ==
    LET speed == -Round2(current_value - self.last_value[1],
                         current_time - self.last_update[1])
    IN  [ret |-> Some(speed), error |-> "none",
         self |-> [last_value |-> Some(current_value),
                   last_update |-> Some(current_time),
                   cached |-> Some(speed)],
         clock |-> current_time, branch |-> "speed"]

\* lines 364-372
ComputeSpeed(self, current_value, current_time) ==
    LET speed == Round2(current_value - self.last_value[1],
                        current_time - self.last_update[1])
    IN  Outcome(Some(speed),
                [last_value |-> Some(current_value),
                 last_update |-> Some(current_time),
                 cached |-> Some(speed)],
                current_time, "speed")

\* datetime.now() of a nested call: the clock stands still or has moved on
ClockReads(t) == {t2 \in Times : t2 = t \/ t2 = t + 1}

\* the property native_value, entered at nesting depth `depth` with
\* datetime.now() = current_time; line 353 reads the property native_value
\* again, which is a nested call with its own datetime.now()
RECURSIVE native_value(_, _, _, _, _)
native_value(key, self, data, current_time, depth) ==
    IF key \notin DOMAIN data THEN {KeyAbsent(self, current_time)}
    ELSE LET current_value == data[key].int IN
         IF self.last_value = None \/ self.last_update = None
         THEN {FirstObservation(self, current_value, current_time)}
         ELSE IF current_time - self.last_update[1] <= 0
         THEN IF self.cached # None
              THEN IF depth >= RecursionLimit
                   THEN {RaisedOutcome("RecursionError", self, current_time)}
                   ELSE UNION {native_value(key, self, data, t2, depth + 1) :
                                   t2 \in ClockReads(current_time)}
              ELSE {NoCachedSpeed(self, current_time)}
         ELSE IF current_value - self.last_value[1] < 0
         THEN {CounterReset(self, current_value, current_time)}
         ELSE {ComputeSpeed(self, current_value, current_time)}

\* ------------------------------------------------------------------------
\* The polling process: coordinator, speed sensors and the wall clock
\* ------------------------------------------------------------------------

VARIABLES
    data,                 \* coordinator.data
    last_update_success,  \* coordinator.last_update_success
    last_poll,            \* how the session of the last refresh ended, the failed
                          \* refreshes before it, the cursors before those
    sensors,              \* the MitrastarSpeedSensor objects, by source key
    reported,             \* the rate each speed sensor returned last
    clock,                \* datetime.now()
    last_call             \* the last call of native_value since the last refresh

rateVars == <<data, last_update_success, last_poll, sensors, reported, clock, last_call>>

\* the except clauses of _execute_multiple_commands (lines 129-137)
SessionErrors == {"TimeoutError", "asyncssh.Error", "Exception"}

LanTexts == {EmptyText} \cup {LanReport(v) : v \in Values}
\* (the captures of showwanstats and lasercheck are the empty ones of a read
\* that timed out)
WanTexts == {EmptyText}
LaserTexts == {EmptyText}

\* the ways one session of get_all_data can end
PollOutcomes ==
    {SessionRaised(k) : k \in SessionErrors}
    \cup {SessionReturned([c \in {"showlanstats", "showwanstats", "lasercheck"} |->
                               CASE c = "showlanstats" -> l
                                 [] c = "showwanstats" -> w
                                 [] c = "lasercheck" -> z]) :
              l \in LanTexts, w \in WanTexts, z \in LaserTexts}

\* seq flips with every call, so that a call is a visible step
\* the stored (last value, last timestamp) of every speed sensor
Cursors(ss) == [k \in DOMAIN ss |-> <<ss[k].last_value, ss[k].last_update>>]

\* last_poll after a refresh whose session ended as `session`
PollRecord(session, before, ss) ==
    [raised |-> session.raised,
     failures |-> IF before.raised
                  THEN (IF before.failures < MaxFailures
                        THEN before.failures + 1 ELSE MaxFailures)
                  ELSE 0,
     kept |-> IF before.raised THEN before.kept ELSE Cursors(ss)]

NoPoll == [raised |-> FALSE, failures |-> 0,
           kept |-> Cursors([k \in SpeedKeys |-> NewSensor])]

NoCall == [seq |-> 0, key |-> <<>>, ret |-> None, error |-> "none", branch |-> "none"]

\* async_config_entry_first_refresh has run; the sensors are new
RateInit ==
    /\ \E session \in PollOutcomes :
          LET update == async_update_data(session) IN
          /\ data = CoordinatorData(update, EmptyDict)
          /\ last_update_success = CoordinatorSuccess(update)
          /\ last_poll = PollRecord(session, NoPoll, [k \in SpeedKeys |-> NewSensor])
    /\ sensors = [k \in SpeedKeys |-> NewSensor]
    /\ reported = [k \in SpeedKeys |-> None]
    /\ clock = 0
    /\ last_call = NoCall

\* one refresh of the coordinator: async_update_data, then the coordinator
\* stores what it returned
PollOf(outcomes) ==
    \E session \in outcomes :
        LET update == async_update_data(session) IN
        /\ data' = CoordinatorData(update, data)
        /\ last_update_success' = CoordinatorSuccess(update)
        /\ last_poll' = PollRecord(session, last_poll, sensors)
        /\ last_call' = [NoCall EXCEPT !.seq = last_call.seq]
        /\ UNCHANGED <<sensors, reported, clock>>

Poll == PollOf(PollOutcomes)

\* the two speed sensors async_setup_entry creates for eth1 and ppp0.1 (rx)
BothKeys == {K_lan_eth1_rx_total_bytes, K_wan_ppp_rx_total_bytes}

\* the ways a session ends when both interfaces report and differ: one
\* counter is 0 and the other MaxValue
BothOutcomes ==
    {SessionReturned([c \in {"showlanstats", "showwanstats", "lasercheck"} |->
                          CASE c = "showlanstats" -> LanReport(p[1])
                            [] c = "showwanstats" -> WanReport(p[2])
                            [] c = "lasercheck" -> EmptyText]) :
         p \in {<<0, MaxValue>>, <<MaxValue, 0>>}}

\* a refresh with both interfaces
PollBoth == PollOf(BothOutcomes)

\* both sensors are new and nothing has been polled
BothInit ==
    /\ data = EmptyDict
    /\ last_update_success = TRUE
    /\ last_poll = NoPoll
    /\ sensors = [k \in BothKeys |-> NewSensor]
    /\ reported = [k \in BothKeys |-> None]
    /\ clock = 0
    /\ last_call = NoCall

\* StoreSensor gone wrong: _last_value, _last_update and _cached_speed are
\* attributes of the class, shared by its objects
StoreSensor_Shared(ss, key, self) == [k \in DOMAIN ss |-> self]

\* self._last_value, self._last_update and self._cached_speed are attributes
\* of the sensor object the property was read on
StoreSensor(ss, key, self) == [ss EXCEPT ![key] = self]

\* the state machine reads native_value of the speed sensor of `key`
NativeValue(key) ==
    \E o \in native_value(key, sensors[key], data, clock, 0) :
        /\ sensors' = StoreSensor(sensors, key, o.self)
        /\ reported' = IF o.error = "none" /\ o.ret # None
                       THEN [reported EXCEPT ![key] = o.ret] ELSE reported
        /\ clock' = o.clock
        /\ last_call' = [seq |-> 1 - last_call.seq, key |-> key, ret |-> o.ret,
                          error |-> o.error, branch |-> o.branch]
        /\ UNCHANGED <<data, last_update_success, last_poll>>

\* time passes
Tick ==
    /\ clock < MaxTime
    /\ clock' = clock + 1
    /\ UNCHANGED <<data, last_update_success, last_poll, sensors, reported, last_call>>

\* the wall clock is set back (datetime.now() is local time, not monotonic)
ClockBack ==
    /\ clock > 0
    /\ clock' = clock - 1
    /\ UNCHANGED <<data, last_update_success, last_poll, sensors, reported, last_call>>

\* ------------------------------------------------------------------------
\* router.py: get_device_info
\* ------------------------------------------------------------------------

W_MLD == <<"M", "L", "D">>
W_Version == <<"V", "e", "r", "s", "i", "o", "n">>
W_Bootbase == <<"B", "o", "o", "t", "b", "a", "s", "e">>
W_Vendor == <<"V", "e", "n", "d", "o", "r">>
W_Name == <<"N", "a", "m", "e">>
W_Product == <<"P", "r", "o", "d", "u", "c", "t">>
W_Model == <<"M", "o", "d", "e", "l">>
W_Serial == <<"S", "e", "r", "i", "a", "l">>
W_Number == <<"N", "u", "m", "b", "e", "r">>
S_colon == <<":">>

S_sw_version == <<"s", "w", "_", "v", "e", "r", "s", "i", "o", "n">>
S_hw_version == <<"h", "w", "_", "v", "e", "r", "s", "i", "o", "n">>
S_manufacturer == <<"m", "a", "n", "u", "f", "a", "c", "t", "u", "r", "e", "r">>
S_model == <<"m", "o", "d", "e", "l">>
S_serial_number ==
    <<"s", "e", "r", "i", "a", "l", "_", "n", "u", "m", "b", "e", "r">>

\* the five lookups, in the order of the code; only the words of
\* r"MLD\s+Version" may stand on two lines, the other labels hold a blank
InfoLookups ==
    << [key |-> S_sw_version, label |-> <<W_MLD, W_Version>>, spans |-> TRUE],
       [key |-> S_hw_version, label |-> <<W_Bootbase, W_Version>>, spans |-> FALSE],
       [key |-> S_manufacturer, label |-> <<W_Vendor, W_Name>>, spans |-> FALSE],
       [key |-> S_model, label |-> <<W_Product, W_Model>>, spans |-> FALSE],
       [key |-> S_serial_number, label |-> <<W_Serial, W_Number>>, spans |-> FALSE] >>

\* the pattern r"<label>\s+:\s+(.+)" matches with its label starting in token
\* i: the label, a colon that stands alone, and one more token, which may be
\* on a later line (\s+ matches the line break)
InfoMatchAt(flat, i, label, spans) ==
    /\ i + 3 <= Len(flat)
    /\ EndsWith(flat[i].tok, label[1])
    /\ flat[i + 1].tok = label[2]
    /\ spans \/ ~flat[i + 1].bol
    /\ flat[i + 2].tok = S_colon

\* (.+) from token p on: the rest of the line of token p; strip() leaves the
\* tokens
RestOfLine(flat, p) ==
    LET stops == {q \in (p + 1)..Len(flat) : flat[q].bol}
        last == IF stops = {} THEN Len(flat)
                ELSE (CHOOSE q \in stops : \A r \in stops : q <= r) - 1
    IN  [j \in 1..(last - p + 1) |-> flat[p + j - 1].tok]

TextVal(words) == [type |-> "text", words |-> words]

\* re.search(...): the leftmost match and group(1).strip(), or no match
InfoSearch(flat, label, spans) ==
    LET at == {i \in 1..Len(flat) : InfoMatchAt(flat, i, label, spans)}
    IN  IF at = {} THEN NoMatch
        ELSE LET i == CHOOSE i \in at : \A j \in at : i <= j
             IN  [found |-> TRUE, text |-> RestOfLine(flat, i + 3)]

\* InfoFrom gone wrong: the lookups stop at the first label that is missing
RECURSIVE InfoFrom_Stops(_, _, _)
InfoFrom_Stops(flat, n, device_info) ==
    IF n > Len(InfoLookups) THEN device_info
    ELSE LET look == InfoLookups[n]
             m == InfoSearch(flat, look.label, look.spans)
         IN  IF ~m.found THEN device_info
             ELSE InfoFrom_Stops(flat, n + 1,
                                 Update(device_info, Entry(look.key, TextVal(m.text))))

\* lines 156-178: lookup n and those after it
RECURSIVE InfoFrom(_, _, _)
InfoFrom(flat, n, device_info) ==
    IF n > Len(InfoLookups) THEN device_info
    ELSE LET look == InfoLookups[n]
             m == InfoSearch(flat, look.label, look.spans)
         IN  IF ~m.found THEN InfoFrom(flat, n + 1, device_info)
             ELSE InfoFrom(flat, n + 1,
                           Update(device_info, Entry(look.key, TextVal(m.text))))

\* get_device_info, given how _execute_ssh_command("sys atsh") ended: an
\* error of the session is caught by `except Exception` (line 180) before
\* any field was stored; neither re.search nor strip() raises
get_device_info(session) ==
    IF session.raised THEN Returned(EmptyDict)
    ELSE Returned(InfoFrom(Flatten(session.results), 1, EmptyDict))

\* ------------------------------------------------------------------------
\* The extractors on their own: texts of up to MaxLines lines
\* ------------------------------------------------------------------------

VARIABLES
    output,   \* the text handed to an extractor
    parsed    \* the extractor applied last, and its outcome

parserVars == <<output, parsed>>

\* lines of a text handed to an extractor
MaxLines == 3

T_x == <<"x">>

\* a row whose eight counters are v, v+1, ..., v+7
CounterToks(v) == [j \in 1..8 |-> Str(v + j - 1)]
FullLanRow(name, status, v) == Line(TRUE, <<name, status>> \o CounterToks(v))
FullWanRow(name, vlan, v) == Line(TRUE, <<name, vlan>> \o CounterToks(v))

\* the row without its last n tokens
Truncated(line, n) == Line(line.lead, SubSeq(line.toks, 1, Len(line.toks) - n))
\* the row with one more token at its end
Extended(line, tok) == Line(line.lead, Append(line.toks, tok))
\* the row with token g followed by `junk` without a blank between
Glued(line, g, junk) == Line(line.lead, [line.toks EXCEPT ![g] = @ \o junk])
\* the row starting in column 0
Unindented(line) == Line(FALSE, line.toks)

\* the lines the texts of showlanstats and showwanstats are made of
StatsLines ==
    {RxHeader, TxHeader, Line(FALSE, <<>>),
     FullLanRow(T_eth1, S_Up, 1),
     FullLanRow(T_eth1, S_Down, 2),
     Truncated(FullLanRow(T_eth1, S_Up, 3), 1),
     Glued(FullLanRow(T_eth1, S_Up, 4), 10, T_x),
     Extended(FullLanRow(T_eth1, S_Up, 5), Str(9)),
     Unindented(FullLanRow(T_eth1, S_Up, 6)),
     Glued(FullLanRow(T_eth1, S_Up, 7), 5, T_x),
     FullWanRow(T_ppp, T_vlan, 1),
     Truncated(FullWanRow(T_ppp, T_vlan, 2), 1),
     Extended(Extended(FullLanRow(T_eth1, S_Up, 8), S_Received), S_Counters)}

\* the lines the texts of lasercheck are made of
LaserLine(label, value, unit) == Line(FALSE, label \o <<S_eq, value, unit>>)
LaserLines ==
    {LaserLine(L_rx_power, <<"-", "2", "3", ".", "5">>, S_dBm),
     LaserLine(L_rx_power, <<"-">>, S_dBm),
     LaserLine(L_tx_power, <<"2", ".", "5", "0">>, S_dBm),
     LaserLine(L_temp, <<"4", "1", ".", "2", ".", "1">>, S_C),
     LaserLine(L_temp, <<"4", "1">>, S_C),
     Line(FALSE, L_voltage \o <<S_eq, <<"3", ".", "3">>>>)}

\* the sequences over `lines` of 1 to n lines
RECURSIVE TextsOf(_, _)
TextsOf(lines, n) ==
    IF n = 0 THEN {<<>>}
    ELSE LET shorter == TextsOf(lines, n - 1)
         IN  shorter \cup {Append(t, l) : t \in shorter, l \in lines}

\* the lines the texts of "sys atsh" are made of
InfoLine(label, words) == Line(FALSE, label \o <<S_colon>> \o words)
InfoLines ==
    {InfoLine(<<W_MLD, W_Version>>, <<<<"1", ".", "0">>>>),
     Line(FALSE, <<W_MLD>>),
     Line(FALSE, <<W_Version, S_colon, <<"2", ".", "0">>>>),
     InfoLine(<<W_Bootbase, W_Version>>, <<<<"V", "1">>, <<"|">>, <<"0", "1">>>>),
     InfoLine(<<W_Vendor, W_Name>>, <<<<"M", "S", "T", "C">>>>),
     InfoLine(<<W_Vendor, W_Name>>, <<>>),
     InfoLine(<<W_Product, W_Model>>, <<<<"G", "P", "T">>>>),
     InfoLine(<<W_Serial, W_Number>>, <<<<"A", "B", "C", "1", "2", "3">>>>),
     Line(FALSE, <<W_Serial, W_Number \o S_colon, <<"X">>>>)}

ParserInputs ==
    (TextsOf(StatsLines, MaxLines) \cup TextsOf(LaserLines, MaxLines)
        \cup TextsOf(InfoLines, MaxLines)) \ {<<>>}

NotParsed == [extractor |-> "none", result |-> Returned(EmptyDict)]

ParserInit ==
    /\ output \in ParserInputs
    /\ parsed = NotParsed

ParseLan ==
    /\ parsed' = [extractor |-> "lan", result |-> _parse_lan_stats(output)]
    /\ UNCHANGED output

ParseWan ==
    /\ parsed' = [extractor |-> "wan", result |-> _parse_wan_stats(output)]
    /\ UNCHANGED output

ParseLaser ==
    /\ parsed' = [extractor |-> "laser", result |-> _parse_laser_stats(output)]
    /\ UNCHANGED output

\* get_device_info with `output` as what the device printed for "sys atsh"
GetDeviceInfo ==
    /\ parsed' = [extractor |-> "device_info",
                  result |-> get_device_info(SessionReturned(output))]
    /\ UNCHANGED output

\* get_device_info with a session that failed
GetDeviceInfoFails ==
    /\ \E kind \in SessionErrors :
          parsed' = [extractor |-> "device_info_failed",
                     result |-> get_device_info(SessionRaised(kind))]
    /\ UNCHANGED output

\* ------------------------------------------------------------------------
\* router.py: _execute_multiple_commands and _execute_ssh_command, one await
\* at a time, and the device at the other end of the channel
\* ------------------------------------------------------------------------

VARIABLES
    pc,          \* where the call stands
    caller,      \* who called
    method,      \* "multiple": _execute_multiple_commands, "single": _execute_ssh_command
    commands,    \* the commands to run (one for _execute_ssh_command)
    results,     \* the local `results` of _execute_multiple_commands
    written,     \* what was written to process.stdin, in order
    captured,    \* per command handled: the text read, whether the read timed
                 \* out, and what the device printed that text for
    connects,    \* asyncssh.connect calls made by this call
    conn,        \* the connection: "none", "open" or "closed"
    process,     \* the process channel: "none", "open" or "closed"
    failure,     \* the error that left the try block, or "none"
    session,     \* what the call handed to its caller
    responsive,  \* the device still answers
    pending,     \* what the device has yet to print: 0 the banner, i the output
                 \* of command i
    stream       \* what the device has printed and process.stdout has not yet
                 \* handed to a read

sessionVars ==
    <<pc, caller, method, commands, results, written, captured, connects, conn,
      process, failure, session, responsive, pending, stream>>

\* commands of a list passed to _execute_multiple_commands
MaxCommands == 2

CommandNames == {Commands[i] : i \in 1..Len(Commands)}

CommandLists ==
    {Commands} \cup (UNION {[1..n -> CommandNames] : n \in 1..MaxCommands})

\* the commands get_device_info and test_connection run (lines 153, 144)
SingleCommands == {"sys atsh", "lasercheck"}

\* output = "" (lines 52, 113); "".split("\n") is one empty line
EmptyOutput == EmptyText

\* what the device prints when the shell starts
BannerText == <<Line(FALSE, <<<<"W", "e", "l", "c", "o", "m", "e">>>>)>>

\* what the device prints for a command
DeviceOutput(command) ==
    CASE command = "showlanstats" -> LanReport(1)
      [] command = "showwanstats" -> WanReport(1)
      [] command = "lasercheck" -> LaserReport(<<"-", "2", "3", ".", "5">>)
      [] command = "sys atsh" ->
            <<InfoLine(<<W_Product, W_Model>>, <<<<"G", "P", "T">>>>),
              InfoLine(<<W_Serial, W_Number>>, <<<<"A", "B", "C", "1", "2", "3">>>>)>>

\* the text of what the device printed for `origins`, in order
RECURSIVE TextOf(_, _)
TextOf(origins, cmds) ==
    IF origins = <<>> THEN <<>>
    ELSE (IF Head(origins) = 0 THEN BannerText ELSE DeviceOutput(cmds[Head(origins)]))
         \o TextOf(Tail(origins), cmds)

\* errors asyncssh.connect raises: the connect timeout, a refused login or
\* failed negotiation, a socket error
ConnectErrors == SessionErrors
\* errors of a channel that is lost; a TimeoutError of wait_for is caught at
\* the read (lines 41, 56, 100, 116)
ChannelErrors == {"asyncssh.Error", "Exception"}

NoSession == SessionReturned(<<>>)

SessionInit ==
    /\ pc = "idle"
    /\ caller = "none"
    /\ method = "none"
    /\ commands = <<>>
    /\ results = <<>>
    /\ written = <<>>
    /\ captured = <<>>
    /\ connects = 0
    /\ conn = "none"
    /\ process = "none"
    /\ failure = "none"
    /\ session = NoSession
    /\ responsive = TRUE
    /\ pending = <<>>
    /\ stream = <<>>

\* results[command] = output (line 119)
Store_Skips(old, command, text) ==
    IF text = EmptyOutput THEN old ELSE Update(old, Entry(command, text))

Store(old, command, text) == Update(old, Entry(command, text))

\* an error leaves the `async with` blocks and the except clauses of lines
\* 69-77 and 129-137 re-raise it: the call ends with the error and returns
\* nothing
Raise_ReturnsResults(kind, partial) ==
    [pc |-> "returned", session |-> SessionReturned(partial)]

Raise(kind, partial) == [pc |-> "raised", session |-> SessionRaised(kind)]

\* Closed gone wrong: the connection is not a context manager's
Closed_Leaks(c) == c

\* the end of an `async with` block (lines 24-34, 83-93): what was opened is
\* closed
Closed(c) == IF c = "open" THEN "closed" ELSE c

\* the call starts (line 81: results = {})
Call(who, how, cmds) ==
    /\ pc = "idle"
    /\ pc' = "connect"
    /\ caller' = who
    /\ method' = how
    /\ commands' = cmds
    /\ results' = <<>>
    /\ written' = <<>>
    /\ captured' = <<>>
    /\ connects' = 0
    /\ conn' = "none"
    /\ process' = "none"
    /\ failure' = "none"
    /\ session' = NoSession
    /\ responsive' = TRUE
    /\ pending' = <<>>
    /\ stream' = <<>>

\* get_all_data calls with its three commands (lines 309-310)
StartPoll == Call("get_all_data", "multiple", Commands)

\* _execute_multiple_commands with another list of commands
StartSession == \E cmds \in CommandLists : Call("other", "multiple", cmds)

\* _execute_ssh_command
StartCommand == \E command \in SingleCommands : Call("other", "single", <<command>>)

Active == pc \notin {"idle", "returned", "raised"}

\* the device stops answering
DeviceStalls ==
    /\ Active
    /\ responsive
    /\ responsive' = FALSE
    /\ UNCHANGED <<pc, caller, method, commands, results, written, captured, connects,
                   conn, process, failure, session, pending, stream>>

\* the device prints what it has to print next
DevicePrints ==
    /\ Active
    /\ responsive
    /\ process = "open"
    /\ pending # <<>>
    /\ stream' = Append(stream, Head(pending))
    /\ pending' = Tail(pending)
    /\ UNCHANGED <<pc, caller, method, commands, results, written, captured, connects,
                   conn, process, failure, session, responsive>>

\* an error at an await inside the try block
Fails(kind) ==
    /\ failure' = kind
    /\ pc' = Raise(kind, results).pc
    /\ session' = Raise(kind, results).session
    /\ process' = Closed(process)
    /\ conn' = Closed(conn)
    /\ UNCHANGED <<caller, method, commands, results, written, captured, responsive,
                   pending, stream>>

\* asyncssh.connect with connect_timeout=10 (lines 24-32, 83-91)
Connect ==
    /\ pc = "connect"
    /\ responsive
    /\ connects' = connects + 1
    /\ conn' = "open"
    /\ pc' = "create_process"
    /\ UNCHANGED <<caller, method, commands, results, written, captured, process,
                   failure, session, responsive, pending, stream>>

\* the connect fails, at the latest when its timeout ends
ConnectFails ==
    /\ pc = "connect"
    /\ connects' = connects + 1
    /\ \E kind \in ConnectErrors : Fails(kind)

\* conn.create_process (lines 34, 93), which waits for the device to open the
\* channel; the shell then has its banner to print
CreateProcess ==
    /\ pc = "create_process"
    /\ responsive
    /\ process' = "open"
    /\ pending' = Append(pending, 0)
    /\ pc' = "prompt"
    /\ UNCHANGED <<caller, method, commands, results, written, captured, connects, conn,
                   failure, session, responsive, stream>>

CreateProcessFails ==
    /\ pc = "create_process"
    /\ responsive
    /\ UNCHANGED connects
    /\ \E kind \in ChannelErrors : Fails(kind)

\* await asyncio.sleep(1) (lines 36, 95)
WaitPrompt ==
    /\ pc = "prompt"
    /\ pc' = "banner"
    /\ UNCHANGED <<caller, method, commands, results, written, captured, connects, conn,
                   process, failure, session, responsive, pending, stream>>

\* the read of the banner, which returns what has been printed or times out
\* (lines 39-42, 98-101); the loop starts, or with no command the exit is
\* written
DrainBanner ==
    /\ pc = "banner"
    /\ stream' = <<>>
    /\ pc' = IF commands = <<>> THEN "exit" ELSE "write"
    /\ UNCHANGED <<caller, method, commands, results, written, captured, connects, conn,
                   process, failure, session, responsive, pending>>

DrainBannerFails ==
    /\ pc = "banner"
    /\ responsive
    /\ UNCHANGED connects
    /\ \E kind \in ChannelErrors : Fails(kind)

\* process.stdin.write(f"{command}\n") and drain (lines 45-46, 106-107); the
\* device has the command's output to print
WriteCommand ==
    /\ pc = "write"
    /\ written' = Append(written, commands[Len(captured) + 1])
    /\ pending' = Append(pending, Len(captured) + 1)
    /\ pc' = "settle"
    /\ UNCHANGED <<caller, method, commands, results, captured, connects, conn, process,
                   failure, session, responsive, stream>>

WriteFails ==
    /\ pc = "write"
    /\ UNCHANGED connects
    /\ \E kind \in ChannelErrors : Fails(kind)

\* await asyncio.sleep(3) (line 49), await asyncio.sleep(2.5) (line 110)
Settle ==
    /\ pc = "settle"
    /\ pc' = "capture"
    /\ UNCHANGED <<caller, method, commands, results, written, captured, connects, conn,
                   process, failure, session, responsive, pending, stream>>

\* the loop goes on with the next command, or ends
AfterCapture_Early(n) == IF n < Len(commands) - 1 THEN "write" ELSE "exit"

AfterCapture(n) == IF n < Len(commands) THEN "write" ELSE "exit"

\* the read returned what the device had printed (lines 52-55, 113-119)
Capture ==
    /\ pc = "capture"
    /\ stream # <<>>
    /\ LET command == commands[Len(captured) + 1]
           text == TextOf(stream, commands)
       IN  /\ results' = IF method = "multiple" THEN Store(results, command, text)
                         ELSE results
           /\ captured' = Append(captured,
                                 [text |-> text, timeout |-> FALSE, from |-> stream])
    /\ stream' = <<>>
    /\ pc' = AfterCapture(Len(captured) + 1)
    /\ UNCHANGED <<caller, method, commands, written, connects, conn, process, failure,
                   session, responsive, pending>>

\* nothing was printed and the read timed out: output is still "" (lines
\* 52-57, 113-119)
CaptureTimesOut ==
    /\ pc = "capture"
    /\ stream = <<>>
    /\ LET command == commands[Len(captured) + 1]
       IN  /\ results' = IF method = "multiple"
                         THEN Store(results, command, EmptyOutput)
                         ELSE results
           /\ captured' = Append(captured,
                                 [text |-> EmptyOutput, timeout |-> TRUE, from |-> <<>>])
    /\ pc' = AfterCapture(Len(captured) + 1)
    /\ UNCHANGED <<caller, method, commands, written, connects, conn, process, failure,
                   session, responsive, pending, stream>>

CaptureFails ==
    /\ pc = "capture"
    /\ responsive
    /\ UNCHANGED connects
    /\ \E kind \in ChannelErrors : Fails(kind)

\* process.stdin.write("exit\n") (lines 60-62, 123-125)
WriteExit ==
    /\ pc = "exit"
    /\ written' = Append(written, "exit")
    /\ pc' = "close"
    /\ UNCHANGED <<caller, method, commands, results, captured, connects, conn, process,
                   failure, session, responsive, pending, stream>>

\* an error of that write is dropped by the bare except (lines 63-64, 126-127)
WriteExitFails ==
    /\ pc = "exit"
    /\ pc' = "close"
    /\ UNCHANGED <<caller, method, commands, results, written, captured, connects, conn,
                   process, failure, session, responsive, pending, stream>>

\* what the call returns: output (line 68), results (line 139)
ReturnValue == IF method = "single" THEN captured[1].text ELSE results

\* the `async with` blocks end and the call returns
Close ==
    /\ pc = "close"
    /\ process' = Closed(process)
    /\ conn' = Closed(conn)
    /\ pc' = "returned"
    /\ session' = SessionReturned(ReturnValue)
    /\ UNCHANGED <<caller, method, commands, results, written, captured, connects,
                   failure, responsive, pending, stream>>

\* an error while the `async with` blocks end is inside the try block (lines
\* 22-68, 82-127) and is re-raised like any other
CloseFails ==
    /\ pc = "close"
    /\ UNCHANGED connects
    /\ \E kind \in ChannelErrors : Fails(kind)

\* the call is over for a caller other than get_all_data
Return ==
    /\ pc \in {"returned", "raised"}
    /\ caller = "other"
    /\ pc' = "idle"
    /\ UNCHANGED <<caller, method, commands, results, written, captured, connects, conn,
                   process, failure, session, responsive, pending, stream>>

\* get_all_data goes on with what the call handed it, async_update_data
\* returns, and the coordinator ends its refresh
FinishPoll ==
    /\ pc \in {"returned", "raised"}
    /\ caller = "get_all_data"
    /\ LET update == async_update_data(session) IN
       /\ data' = CoordinatorData(update, data)
       /\ last_update_success' = CoordinatorSuccess(update)
       /\ last_poll' = PollRecord(session, last_poll, sensors)
    /\ pc' = "idle"
    /\ UNCHANGED <<caller, method, commands, results, written, captured, connects, conn,
                   process, failure, session, responsive, pending, stream>>

\* ------------------------------------------------------------------------
\* config_flow.py: the onboarding flow, and router.py: test_connection
\* ------------------------------------------------------------------------

VARIABLES
    flow         \* what async_step_user returned last in the flow under way

flowVars == <<flow>>

\* nothing has been returned yet
NoFlow == [type |-> "none", errors |-> "none"]

\* "Rx Optical Power" in output (tokens of a line stand one blank apart)
HasRxPower(text) ==
    \E n \in 1..Len(text) :
        \E i \in 1..(Len(text[n].toks) - 2) :
            /\ EndsWith(text[n].toks[i], L_rx_power[1])
            /\ text[n].toks[i + 1] = L_rx_power[2]
            /\ StartsWith(text[n].toks[i + 2], L_rx_power[3])

\* test_connection: the result of the membership test, or False after any
\* Exception of the session; it raises nothing
test_connection(s) ==
    [raised |-> FALSE,
     value |-> IF s.raised THEN FALSE ELSE HasRxPower(s.results)]

\* validate_input: awaits test_connection without looking at what it
\* returns; CannotConnect is raised only if the await raises
validate_input(s) ==
    IF test_connection(s).raised
    THEN [raised |-> TRUE, error |-> "CannotConnect"]
    ELSE [raised |-> FALSE, error |-> "none"]

\* async_step_user, without user input and with it
async_step_user(given, s) ==
    IF ~given THEN [type |-> "form", errors |-> "none"]
    ELSE LET info == validate_input(s) IN
         IF info.raised /\ info.error = "CannotConnect"
         THEN [type |-> "form", errors |-> "cannot_connect"]
         ELSE IF info.raised
         THEN [type |-> "form", errors |-> "unknown"]
         ELSE [type |-> "create_entry", errors |-> "none"]

\* the flow starts: the form is shown
ShowForm ==
    /\ pc = "idle"
    /\ flow' = async_step_user(FALSE, session)
    /\ UNCHANGED sessionVars

\* the user has sent the form: validate_input calls test_connection, which
\* runs lasercheck
StartTest ==
    /\ flow.type = "form"
    /\ Call("test_connection", "single", <<"lasercheck">>)
    /\ UNCHANGED flow

\* the session is over, and test_connection, validate_input and
\* async_step_user return
FinishFlow ==
    /\ pc \in {"returned", "raised"}
    /\ caller = "test_connection"
    /\ flow' = async_step_user(TRUE, session)
    /\ pc' = "idle"
    /\ UNCHANGED <<caller, method, commands, results, written, captured, connects, conn,
                   process, failure, session, responsive, pending, stream>>

\* ------------------------------------------------------------------------
\* The specifications
\* ------------------------------------------------------------------------

vars == <<rateVars, parserVars, sessionVars, flowVars>>

\* the polling process
Init ==
    /\ RateInit
    /\ output = EmptyText
    /\ parsed = NotParsed
    /\ SessionInit
    /\ flow = NoFlow

Next ==
    \/ Poll /\ UNCHANGED <<parserVars, sessionVars, flowVars>>
    \/ (\E key \in DOMAIN sensors : NativeValue(key)) /\ UNCHANGED <<parserVars, sessionVars, flowVars>>
    \/ Tick /\ UNCHANGED <<parserVars, sessionVars, flowVars>>
    \/ ClockBack /\ UNCHANGED <<parserVars, sessionVars, flowVars>>

Spec == Init /\ [][Next]_vars

\* the extractors
InitParser ==
    /\ ParserInit
    /\ data = EmptyDict
    /\ last_update_success = TRUE
    /\ last_poll = NoPoll
    /\ sensors = [k \in SpeedKeys |-> NewSensor]
    /\ reported = [k \in SpeedKeys |-> None]
    /\ clock = 0
    /\ last_call = NoCall
    /\ SessionInit
    /\ flow = NoFlow

NextParser ==
    \/ ParseLan /\ UNCHANGED <<rateVars, sessionVars, flowVars>>
    \/ ParseWan /\ UNCHANGED <<rateVars, sessionVars, flowVars>>
    \/ ParseLaser /\ UNCHANGED <<rateVars, sessionVars, flowVars>>
    \/ GetDeviceInfo /\ UNCHANGED <<rateVars, sessionVars, flowVars>>
    \/ GetDeviceInfoFails /\ UNCHANGED <<rateVars, sessionVars, flowVars>>

SpecParser == InitParser /\ [][NextParser]_vars

\* the two speed sensors side by side
InitCursors ==
    /\ BothInit
    /\ output = EmptyText
    /\ parsed = NotParsed
    /\ SessionInit
    /\ flow = NoFlow

NextCursors ==
    \/ PollBoth /\ UNCHANGED <<parserVars, sessionVars, flowVars>>
    \/ (\E key \in DOMAIN sensors : NativeValue(key)) /\ UNCHANGED <<parserVars, sessionVars, flowVars>>
    \/ Tick /\ UNCHANGED <<parserVars, sessionVars, flowVars>>

SpecCursors == InitCursors /\ [][NextCursors]_vars

\* a session of either method, from connect to the return to its caller
InitSession ==
    /\ SessionInit
    /\ data = EmptyDict
    /\ last_update_success = TRUE
    /\ last_poll = NoPoll
    /\ sensors = [k \in SpeedKeys |-> NewSensor]
    /\ reported = [k \in SpeedKeys |-> None]
    /\ clock = 0
    /\ last_call = NoCall
    /\ output = EmptyText
    /\ parsed = NotParsed
    /\ flow = NoFlow

NextSession ==
    \/ StartSession /\ UNCHANGED <<rateVars, parserVars, flowVars>>
    \/ StartCommand /\ UNCHANGED <<rateVars, parserVars, flowVars>>
    \/ DeviceStalls /\ UNCHANGED <<rateVars, parserVars, flowVars>>
    \/ DevicePrints /\ UNCHANGED <<rateVars, parserVars, flowVars>>
    \/ Connect /\ UNCHANGED <<rateVars, parserVars, flowVars>>
    \/ ConnectFails /\ UNCHANGED <<rateVars, parserVars, flowVars>>
    \/ CreateProcess /\ UNCHANGED <<rateVars, parserVars, flowVars>>
    \/ CreateProcessFails /\ UNCHANGED <<rateVars, parserVars, flowVars>>
    \/ WaitPrompt /\ UNCHANGED <<rateVars, parserVars, flowVars>>
    \/ DrainBanner /\ UNCHANGED <<rateVars, parserVars, flowVars>>
    \/ DrainBannerFails /\ UNCHANGED <<rateVars, parserVars, flowVars>>
    \/ WriteCommand /\ UNCHANGED <<rateVars, parserVars, flowVars>>
    \/ WriteFails /\ UNCHANGED <<rateVars, parserVars, flowVars>>
    \/ Settle /\ UNCHANGED <<rateVars, parserVars, flowVars>>
    \/ Capture /\ UNCHANGED <<rateVars, parserVars, flowVars>>
    \/ CaptureTimesOut /\ UNCHANGED <<rateVars, parserVars, flowVars>>
    \/ CaptureFails /\ UNCHANGED <<rateVars, parserVars, flowVars>>
    \/ WriteExit /\ UNCHANGED <<rateVars, parserVars, flowVars>>
    \/ WriteExitFails /\ UNCHANGED <<rateVars, parserVars, flowVars>>
    \/ Close /\ UNCHANGED <<rateVars, parserVars, flowVars>>
    \/ CloseFails /\ UNCHANGED <<rateVars, parserVars, flowVars>>
    \/ Return /\ UNCHANGED <<rateVars, parserVars, flowVars>>

SpecSession == InitSession /\ [][NextSession]_vars

\* the session of a poll, and the refresh it belongs to
InitRefresh == InitSession

NextRefresh ==
    \/ StartPoll /\ UNCHANGED <<rateVars, parserVars, flowVars>>
    \/ DeviceStalls /\ UNCHANGED <<rateVars, parserVars, flowVars>>
    \/ DevicePrints /\ UNCHANGED <<rateVars, parserVars, flowVars>>
    \/ Connect /\ UNCHANGED <<rateVars, parserVars, flowVars>>
    \/ ConnectFails /\ UNCHANGED <<rateVars, parserVars, flowVars>>
    \/ CreateProcess /\ UNCHANGED <<rateVars, parserVars, flowVars>>
    \/ CreateProcessFails /\ UNCHANGED <<rateVars, parserVars, flowVars>>
    \/ WaitPrompt /\ UNCHANGED <<rateVars, parserVars, flowVars>>
    \/ DrainBanner /\ UNCHANGED <<rateVars, parserVars, flowVars>>
    \/ DrainBannerFails /\ UNCHANGED <<rateVars, parserVars, flowVars>>
    \/ WriteCommand /\ UNCHANGED <<rateVars, parserVars, flowVars>>
    \/ WriteFails /\ UNCHANGED <<rateVars, parserVars, flowVars>>
    \/ Settle /\ UNCHANGED <<rateVars, parserVars, flowVars>>
    \/ Capture /\ UNCHANGED <<rateVars, parserVars, flowVars>>
    \/ CaptureTimesOut /\ UNCHANGED <<rateVars, parserVars, flowVars>>
    \/ CaptureFails /\ UNCHANGED <<rateVars, parserVars, flowVars>>
    \/ WriteExit /\ UNCHANGED <<rateVars, parserVars, flowVars>>
    \/ WriteExitFails /\ UNCHANGED <<rateVars, parserVars, flowVars>>
    \/ Close /\ UNCHANGED <<rateVars, parserVars, flowVars>>
    \/ CloseFails /\ UNCHANGED <<rateVars, parserVars, flowVars>>
    \/ FinishPoll /\ UNCHANGED <<sensors, reported, clock, last_call, parserVars, flowVars>>

SpecRefresh == InitRefresh /\ [][NextRefresh]_vars

\* the onboarding flow and the session of its connection test
InitOnboarding == InitSession

NextOnboarding ==
    \/ ShowForm /\ UNCHANGED <<rateVars, parserVars>>
    \/ StartTest /\ UNCHANGED <<rateVars, parserVars>>
    \/ DeviceStalls /\ UNCHANGED <<rateVars, parserVars, flowVars>>
    \/ DevicePrints /\ UNCHANGED <<rateVars, parserVars, flowVars>>
    \/ Connect /\ UNCHANGED <<rateVars, parserVars, flowVars>>
    \/ ConnectFails /\ UNCHANGED <<rateVars, parserVars, flowVars>>
    \/ CreateProcess /\ UNCHANGED <<rateVars, parserVars, flowVars>>
    \/ CreateProcessFails /\ UNCHANGED <<rateVars, parserVars, flowVars>>
    \/ WaitPrompt /\ UNCHANGED <<rateVars, parserVars, flowVars>>
    \/ DrainBanner /\ UNCHANGED <<rateVars, parserVars, flowVars>>
    \/ DrainBannerFails /\ UNCHANGED <<rateVars, parserVars, flowVars>>
    \/ WriteCommand /\ UNCHANGED <<rateVars, parserVars, flowVars>>
    \/ WriteFails /\ UNCHANGED <<rateVars, parserVars, flowVars>>
    \/ Settle /\ UNCHANGED <<rateVars, parserVars, flowVars>>
    \/ Capture /\ UNCHANGED <<rateVars, parserVars, flowVars>>
    \/ CaptureTimesOut /\ UNCHANGED <<rateVars, parserVars, flowVars>>
    \/ CaptureFails /\ UNCHANGED <<rateVars, parserVars, flowVars>>
    \/ WriteExit /\ UNCHANGED <<rateVars, parserVars, flowVars>>
    \/ WriteExitFails /\ UNCHANGED <<rateVars, parserVars, flowVars>>
    \/ Close /\ UNCHANGED <<rateVars, parserVars, flowVars>>
    \/ CloseFails /\ UNCHANGED <<rateVars, parserVars, flowVars>>
    \/ FinishFlow /\ UNCHANGED <<rateVars, parserVars>>

SpecOnboarding == InitOnboarding /\ [][NextOnboarding]_vars

\* ------------------------------------------------------------------------
\* Rate derivation: the claims
\* ------------------------------------------------------------------------

\* this step is a call of native_value on the sensor of `key`
Called(key) == last_call'.seq # last_call.seq /\ last_call'.key = key

\* the sensor of `key` holds a stored reading
Stored(key) == sensors[key].last_value # None /\ sensors[key].last_update # None

\* r hundredths is value_diff / time_diff to the nearest hundredth
Nearest(r, value_diff, time_diff) ==
    LET e == r * time_diff - 100 * value_diff
    IN  2 * e <= time_diff /\ -2 * e <= time_diff

\* C1: an observation of a key with a stored reading, at a time not after the
\* stored timestamp, returns the rate reported last for the key, leaves the
\* stored value and timestamp as they are, and raises nothing.
C1_PreviousRateKept ==
    [][\A key \in DOMAIN sensors :
          (/\ Called(key)
           /\ key \in DOMAIN data
           /\ Stored(key)
           /\ clock - sensors[key].last_update[1] <= 0)
          => /\ last_call'.error = "none"
             /\ last_call'.ret = reported[key]
             /\ Cursors(sensors')[key] = Cursors(sensors)[key]]_vars

\* C5: while the last refresh is a failed one every stored (value, timestamp)
\* is the one held before the failures; and the first reading after the first
\* refresh that succeeds again, with time elapsed and the counter not lower,
\* reports the difference to that stored value over the time since its
\* timestamp.
C5_FailedPollKeepsCursors ==
    [][\A key \in DOMAIN sensors :
          /\ last_poll.raised => Cursors(sensors)[key] = last_poll.kept[key]
          /\ last_poll'.raised => Cursors(sensors')[key] = last_poll'.kept[key]
          /\ (/\ Called(key)
              /\ ~last_poll.raised /\ last_poll.failures > 0
              /\ last_call.branch = "none"
              /\ key \in DOMAIN data
              /\ last_poll.kept[key][1] # None /\ last_poll.kept[key][2] # None
              /\ clock - last_poll.kept[key][2][1] > 0
              /\ data[key].int >= last_poll.kept[key][1][1])
             => /\ last_call'.error = "none"
                /\ last_call'.ret # None
                /\ Nearest(last_call'.ret[1],
                           data[key].int - last_poll.kept[key][1][1],
                           clock - last_poll.kept[key][2][1])]_vars

\* a reading during a failed refresh, with a stored reading in place
C5_Witness ==
    /\ last_poll.raised /\ last_poll.failures > 0
    /\ last_call.branch = "absent"
    /\ \E key \in DOMAIN sensors : key = last_call.key /\ Stored(key)

\* C7: the first observation of a key stores the current value and time and
\* reports 0; a rate other than 0 is reported only by a call that found a
\* stored reading.
C7_FirstObservationIsZero ==
    [][\A key \in DOMAIN sensors :
          /\ (Called(key) /\ key \in DOMAIN data /\ ~Stored(key))
             => /\ last_call'.error = "none"
                /\ last_call'.ret = Some(0)
                /\ sensors'[key].last_value = Some(data[key].int)
                /\ sensors'[key].last_update = Some(clock)
          /\ (Called(key) /\ last_call'.ret \notin {None, Some(0)})
             => Stored(key)]_vars

\* a first observation has been made
C7_Witness ==
    /\ last_call.branch = "first"
    /\ last_call.ret = Some(0)
    /\ \E key \in DOMAIN sensors : key = last_call.key /\ Stored(key)

\* C8: an observation with time elapsed whose value is lower than the stored
\* one makes the current sample the stored one and reports 0.
C8_CounterResetRebases ==
    [][\A key \in DOMAIN sensors :
          (/\ Called(key)
           /\ key \in DOMAIN data
           /\ Stored(key)
           /\ clock - sensors[key].last_update[1] > 0
           /\ data[key].int < sensors[key].last_value[1])
          => /\ last_call'.error = "none"
             /\ last_call'.ret = Some(0)
             /\ sensors'[key].last_value = Some(data[key].int)
             /\ sensors'[key].last_update = Some(clock)]_vars

\* a counter reset has been observed
C8_Witness ==
    /\ last_call.branch = "reset"
    /\ last_call.ret = Some(0)
    /\ \E key \in DOMAIN sensors :
          key = last_call.key /\ sensors[key].last_value = Some(data[key].int)

\* C9: an observation with time elapsed and a value not lower than the stored
\* one reports (value - stored value) / (time - stored time) to the nearest
\* hundredth and then holds the current value and time; 50 bytes in 5 seconds
\* are 10.00.
C9_RateIsRoundedQuotient ==
    [][\A key \in DOMAIN sensors :
          /\ Round2(150 - 100, 5) = 1000
          /\ (/\ Called(key)
              /\ key \in DOMAIN data
              /\ Stored(key)
              /\ clock - sensors[key].last_update[1] > 0
              /\ data[key].int >= sensors[key].last_value[1])
             => /\ last_call'.error = "none"
                /\ last_call'.ret # None
                /\ Nearest(last_call'.ret[1],
                           data[key].int - sensors[key].last_value[1],
                           clock - sensors[key].last_update[1])
                /\ sensors'[key].last_value = Some(data[key].int)
                /\ sensors'[key].last_update = Some(clock)]_vars

\* a rate that needed rounding has been reported: 2 bytes in 3 ticks
C9_Witness ==
    /\ last_call.branch = "speed"
    /\ last_call.ret = Some(67)

\* ------------------------------------------------------------------------
\* The extractors: the claims (SpecParser)
\* ------------------------------------------------------------------------

\* C6 (as stated): none of the three extractors ever raises, whatever the
\* text: each returns a mapping.
C6_ExtractorsNeverRaise ==
    parsed.extractor # "none" => ~parsed.result.raised

\* the fields of a line, from token `from` on, that start with a number
NumericFields(line, from) ==
    Cardinality({g \in from..Len(line.toks) : DigitPrefix(line.toks[g]) # <<>>})

\* d holds the nine keys of the group of `line` in section `sec`, each with
\* the value of its column of that line
WholeGroup(d, ns, first, line, sec) ==
    /\ Len(line.toks) >= 10
    /\ LET prefix == KeyPrefix(ns, line.toks[1], sec) IN
       /\ Key(prefix, first) \in DOMAIN d
       /\ d[Key(prefix, first)] = StrVal(line.toks[2])
       /\ \A j \in 1..8 :
             /\ Key(prefix, CounterFields[j]) \in DOMAIN d
             /\ d[Key(prefix, CounterFields[j])]
                    = IntVal(IntOf(DigitPrefix(line.toks[2 + j])))

\* k is one of the nine keys of the group of `line` in section `sec`
KeyOfGroup(k, ns, first, line, sec) ==
    /\ Len(line.toks) >= 1
    /\ \/ k = Key(KeyPrefix(ns, line.toks[1], sec), first)
       \/ \E j \in 1..8 : k = Key(KeyPrefix(ns, line.toks[1], sec), CounterFields[j])

\* every key of d is in a group that d holds whole, all of it from one line of
\* the text with at least `required` numeric fields from token `from` on
NoPartialGroup(d, text, ns, first, from, required) ==
    \A k \in DOMAIN d :
        \E i \in 1..Len(text), sec \in {S_rx, S_tx} :
            /\ KeyOfGroup(k, ns, first, text[i], sec)
            /\ WholeGroup(d, ns, first, text[i], sec)
            /\ NumericFields(text[i], from) >= required

C2_FailedSessionFailsUpdate ==
    (pc = "idle" /\ caller = "get_all_data" /\ session.raised)
        => ~last_update_success

\* command i is the last of its name in the list
LastOfItsName(i) == \A j \in (i + 1)..Len(commands) : commands[j] # commands[i]

\* C3: in _execute_multiple_commands, while no error has left the session,
\* every command handled so far is a key of the mapping; a session that
\* returns has written every command of the list in order and has read for
\* each, also after a read that timed out, and its mapping holds every
\* command, each with the text of its last read: the empty text where that
\* read timed out.
C3_EveryCommandIsAKey ==
    /\ (method = "multiple" /\ failure = "none") =>
          \A i \in 1..Len(captured) : commands[i] \in DOMAIN results
    /\ (method = "multiple" /\ pc = "returned") =>
          /\ ~session.raised
          /\ Len(captured) = Len(commands)
          /\ Len(written) >= Len(commands)
          /\ SubSeq(written, 1, Len(commands)) = commands
          /\ \A i \in 1..Len(commands) :
                /\ commands[i] \in DOMAIN session.results
                /\ LastOfItsName(i) =>
                      session.results[commands[i]] = captured[i].text
                /\ captured[i].timeout => captured[i].text = EmptyOutput

\* three commands, the read of the second timed out, the third was read
C3_Witness ==
    /\ pc = "returned"
    /\ Len(commands) = 3
    /\ captured[2].timeout
    /\ ~captured[3].timeout
    /\ session.results[commands[2]] = EmptyOutput
    /\ session.results[commands[3]] # EmptyOutput

\* C4: a step in which an error occurs (at connect, at create_process, at the
\* banner read, at a write or at a read) ends the call raised with that error
\* and without a mapping, with the connection no longer open and nothing
\* more written; a call makes at most one connect; and a raised call only
\* hands over to its caller: nothing more is written and no connect is made.
C4_ErrorEndsSession ==
    [][/\ (failure = "none" /\ failure' # "none") =>
             /\ pc' = "raised"
             /\ session'.raised
             /\ session'.error = failure'
             /\ DOMAIN session'.results = {}
             /\ written' = written
             /\ conn' # "open"
       /\ connects' <= 1
       /\ pc = "raised" =>
             /\ pc' = "idle"
             /\ written' = written
             /\ connects' = connects
             /\ session' = session]_vars

\* the read of the second command failed after the first was stored
C4_Witness ==
    /\ pc = "raised"
    /\ failure # "none"
    /\ Len(captured) = 1
    /\ Len(written) = 2
    /\ DOMAIN results # {}
    /\ DOMAIN session.results = {}

\* ------------------------------------------------------------------------
\* The extractors: rows, sections and types (SpecParser)
\* ------------------------------------------------------------------------

\* the section header seen last before line i of the text, if any
RecentHeader(text, i) ==
    LET hs == {j \in 1..(i - 1) : IsHeader(text[j])} IN
    IF hs = {} THEN NoSection
    ELSE LET j == CHOOSE j \in hs : \A h \in hs : h <= j
         IN  IF Contains(text[j], S_Received) THEN S_rx ELSE S_tx

\* a row as the device prints it: indented, a name, a status word (LAN) or a
\* vlan id (WAN), and eight integers
WellFormedLan(line) ==
    /\ line.lead
    /\ Len(line.toks) = 10
    /\ IsWord(line.toks[1])
    /\ line.toks[2] \in {S_Up, S_Disabled, S_Down}
    /\ \A g \in 3..10 : IsNumber(line.toks[g])

WellFormedWan(line) ==
    /\ line.lead
    /\ Len(line.toks) = 10
    /\ \A g \in 2..10 : IsNumber(line.toks[g])

\* line i is the last row of its interface in its section
LastOfItsGroup(text, i) ==
    \A j \in (i + 1)..Len(text) :
        ~(/\ Len(text[j].toks) >= 1
          /\ text[j].toks[1] = text[i].toks[1]
          /\ RecentHeader(text, j) = RecentHeader(text, i))

\* the keys of d that start with prefix and "_"
KeysUnder(d, prefix) == {k \in DOMAIN d : StartsWith(k, prefix \o S_us)}

\* d holds for the row `line` of namespace ns in section sec exactly its nine
\* fields, the columns in their order
ExactGroup(d, ns, first, line, sec) ==
    LET prefix == KeyPrefix(ns, line.toks[1], sec) IN
    /\ WholeGroup(d, ns, first, line, sec)
    /\ d[Key(prefix, S_total_bytes)] = IntVal(IntOf(line.toks[3]))
    /\ d[Key(prefix, S_total_packets)] = IntVal(IntOf(line.toks[4]))
    /\ d[Key(prefix, S_errors)] = IntVal(IntOf(line.toks[5]))
    /\ d[Key(prefix, S_drops)] = IntVal(IntOf(line.toks[6]))
    /\ d[Key(prefix, S_multicast_bytes)] = IntVal(IntOf(line.toks[7]))
    /\ d[Key(prefix, S_multicast_packets)] = IntVal(IntOf(line.toks[8]))
    /\ d[Key(prefix, S_unicast_packets)] = IntVal(IntOf(line.toks[9]))
    /\ d[Key(prefix, S_broadcast_packets)] = IntVal(IntOf(line.toks[10]))
    /\ Cardinality(KeysUnder(d, prefix)) = 9

\* an Up row for eth1 with the counters 1000, 10, 0, 0, 0, 0, 8, 2 under
\* "Received Counters:"
ExampleTranscript ==
    <<RxHeader,
      Line(TRUE, <<T_eth1, S_Up, <<"1", "0", "0", "0">>, <<"1", "0">>, <<"0">>, <<"0">>,
                   <<"0">>, <<"0">>, <<"8">>, <<"2">>>>)>>

ExampleSnapshot(transcript) == _parse_lan_stats(transcript).data

K_lan_eth1_rx_status ==
    <<"l", "a", "n", "_", "e", "t", "h", "1", "_", "r", "x", "_",
      "s", "t", "a", "t", "u", "s">>
K_lan_eth1_rx_unicast_packets ==
    <<"l", "a", "n", "_", "e", "t", "h", "1", "_", "r", "x", "_",
      "u", "n", "i", "c", "a", "s", "t", "_", "p", "a", "c", "k", "e", "t", "s">>
K_lan_eth1_rx_broadcast_packets ==
    <<"l", "a", "n", "_", "e", "t", "h", "1", "_", "r", "x", "_",
      "b", "r", "o", "a", "d", "c", "a", "s", "t", "_", "p", "a", "c", "k", "e", "t", "s">>

\* C11: every well-formed LAN (WAN) row inside an rx or tx section yields,
\* under the keys {namespace}_{interface}_{section}_{field}, exactly its
\* status (vlan id) and its eight counters, each counter from its own column;
\* the extractor's result holds them for the last row of each interface and
\* section; the transcript of the example yields status "Up", total_bytes
\* 1000, unicast_packets 8 and broadcast_packets 2 among its nine keys.
C11_WellFormedRowEmitsItsGroup ==
    /\ \A i \in 1..Len(output), sec \in {S_rx, S_tx} :
          /\ WellFormedLan(output[i]) =>
                ExactGroup(LanLine(output[i], sec, EmptyDict), S_lan, S_status,
                           output[i], sec)
          /\ WellFormedWan(output[i]) =>
                ExactGroup(WanLine(output[i], sec, EmptyDict), S_wan, S_vlan_id,
                           output[i], sec)
    /\ parsed.extractor = "lan" =>
          \A i \in 1..Len(output) :
              (/\ WellFormedLan(output[i])
               /\ RecentHeader(output, i) # NoSection
               /\ LastOfItsGroup(output, i))
                  => ExactGroup(parsed.result.data, S_lan, S_status, output[i],
                                RecentHeader(output, i))
    /\ parsed.extractor = "wan" =>
          \A i \in 1..Len(output) :
              (/\ WellFormedWan(output[i])
               /\ RecentHeader(output, i) # NoSection
               /\ LastOfItsGroup(output, i))
                  => ExactGroup(parsed.result.data, S_wan, S_vlan_id, output[i],
                                RecentHeader(output, i))
    /\ LET snapshot == ExampleSnapshot(ExampleTranscript) IN
       /\ DOMAIN snapshot = KeysUnder(snapshot, KeyPrefix(S_lan, T_eth1, S_rx))
       /\ Cardinality(DOMAIN snapshot) = 9
       /\ snapshot[K_lan_eth1_rx_status] = [type |-> "str", str |-> <<"U", "p">>]
       /\ snapshot[K_lan_eth1_rx_total_bytes] = [type |-> "int", int |-> 1000]
       /\ snapshot[K_lan_eth1_rx_unicast_packets] = [type |-> "int", int |-> 8]
       /\ snapshot[K_lan_eth1_rx_broadcast_packets] = [type |-> "int", int |-> 2]

\* the WAN extractor returned the group of a row of ppp0.1 that stands in a
\* tx section
C11_Witness ==
    /\ parsed.extractor = "wan"
    /\ \E i \in 1..Len(output) :
          /\ WellFormedWan(output[i])
          /\ RecentHeader(output, i) = S_tx
          /\ Key(KeyPrefix(S_wan, output[i].toks[1], S_tx), S_vlan_id)
                 \in DOMAIN parsed.result.data

S_laser == <<"l", "a", "s", "e", "r">>

\* k ends with "_" and the field
HasField(k, field) == EndsWith(k, S_us \o field)

\* C16: in what an extractor of the snapshot (LAN, WAN, laser) returns the
\* type of a value is fixed by its key: a *_status or *_vlan_id value is a
\* string, the value of each of the eight counters is an integer, a laser_*
\* value is a float, and every key is of one of these kinds.
C16_TypeFixedPerKey ==
    parsed.extractor \in {"lan", "wan", "laser"} =>
        \A k \in DOMAIN parsed.result.data :
            LET v == parsed.result.data[k] IN
            /\ (HasField(k, S_status) \/ HasField(k, S_vlan_id)) => v.type = "str"
            /\ (\E j \in 1..8 : HasField(k, CounterFields[j])) => v.type = "int"
            /\ StartsWith(k, S_laser \o S_us) => v.type = "float"
            /\ \/ HasField(k, S_status) \/ HasField(k, S_vlan_id)
               \/ \E j \in 1..8 : HasField(k, CounterFields[j])
               \/ StartsWith(k, S_laser \o S_us)

\* the WAN extractor returned a vlan id, a string, and a counter, an integer
C16_Witness ==
    /\ parsed.extractor = "wan"
    /\ \E k \in DOMAIN parsed.result.data :
          HasField(k, S_vlan_id) /\ parsed.result.data[k].type = "str"
    /\ \E k \in DOMAIN parsed.result.data :
          HasField(k, S_total_bytes) /\ parsed.result.data[k].type = "int"

\* the nine keys of interface `name` in section `sec`
GroupKeys(ns, first, name, sec) ==
    {Key(KeyPrefix(ns, name, sec), first)}
        \cup {Key(KeyPrefix(ns, name, sec), CounterFields[j]) : j \in 1..8}

\* C18: the keys an extractor returns are those of the matching rows that
\* are no headers and stand after a header, each under the section of the
\* header seen last before it: a row before the first header and a header
\* line emit nothing.
C18_SectionIsTheRecentHeader ==
    /\ parsed.extractor = "lan" =>
          DOMAIN parsed.result.data =
              UNION {GroupKeys(S_lan, S_status, output[i].toks[1], RecentHeader(output, i)) :
                         i \in {j \in 1..Len(output) :
                                   /\ LanMatch(output[j])
                                   /\ ~IsHeader(output[j])
                                   /\ RecentHeader(output, j) # NoSection}}
    /\ parsed.extractor = "wan" =>
          DOMAIN parsed.result.data =
              UNION {GroupKeys(S_wan, S_vlan_id, output[i].toks[1], RecentHeader(output, i)) :
                         i \in {j \in 1..Len(output) :
                                   /\ WanMatch(output[j])
                                   /\ ~IsHeader(output[j])
                                   /\ RecentHeader(output, j) # NoSection}}

\* a row, then "Transmitted Counters:", then a row: only tx keys come back
C18_Witness ==
    /\ parsed.extractor = "lan"
    /\ Len(output) = 3
    /\ LanMatch(output[1]) /\ ~IsHeader(output[1])
    /\ Contains(output[2], S_Transmitted)
    /\ LanMatch(output[3]) /\ ~IsHeader(output[3])
    /\ DOMAIN parsed.result.data =
           GroupKeys(S_lan, S_status, output[3].toks[1], S_tx)

\* C19 (as stated): a line whose number of fields after the name and the
\* status (the vlan id) is not eight, be it fewer or more, adds no key: every
\* key returned is one of a row with exactly eight.
C19_WrongFieldCountAddsNothing ==
    /\ parsed.extractor = "lan" =>
          \A k \in DOMAIN parsed.result.data :
              \E i \in 1..Len(output), sec \in {S_rx, S_tx} :
                  /\ KeyOfGroup(k, S_lan, S_status, output[i], sec)
                  /\ Len(output[i].toks) = 10
    /\ parsed.extractor = "wan" =>
          \A k \in DOMAIN parsed.result.data :
              \E i \in 1..Len(output), sec \in {S_rx, S_tx} :
                  /\ KeyOfGroup(k, S_wan, S_vlan_id, output[i], sec)
                  /\ Len(output[i].toks) = 10

\* ------------------------------------------------------------------------
\* The device identity: the claim (SpecParser)
\* ------------------------------------------------------------------------

InfoKeys == {InfoLookups[n].key : n \in 1..Len(InfoLookups)}

SessionStep ==
    \/ Connect \/ ConnectFails
    \/ CreateProcess \/ CreateProcessFails
    \/ WaitPrompt
    \/ DrainBanner \/ DrainBannerFails
    \/ WriteCommand \/ WriteFails
    \/ Settle
    \/ Capture \/ CaptureTimesOut \/ CaptureFails
    \/ WriteExit \/ WriteExitFails
    \/ Close \/ CloseFails

\* C12 (as stated): every blocking step of a session of either method is
\* bounded, so that whatever the device does the call is never left waiting:
\* while the call has not returned or raised, one of its awaits can end.
C12_EveryWaitIsBounded == Active => ENABLED SessionStep

\* C13 (as stated): once every command of the list has been written and
\* captured, no failure of the closing phase (the exit write, the close of
\* the process channel, the close of the connection) makes the call fail: it
\* returns the complete mapping.
C13_CloseFailuresSwallowed ==
    (/\ method = "multiple"
     /\ pc \in {"returned", "raised"}
     /\ Len(captured) = Len(commands))
        => /\ ~session.raised
           /\ \A i \in 1..Len(commands) : commands[i] \in DOMAIN session.results

\* C14 (as stated): in every interleaving of what the device prints with the
\* sleeps and reads of the call, the text recorded for a command holds only
\* what the device printed for that command: nothing of the banner and
\* nothing printed late for an earlier command.
C14_OutputCollectedInIsolation ==
    \A i \in 1..Len(captured) :
        \A j \in 1..Len(captured[i].from) : captured[i].from[j] = i

\* the steps a call may take from one phase to the next; an error may leave
\* any phase
PhaseOrder ==
    {<<"idle", "connect">>, <<"connect", "create_process">>,
     <<"create_process", "prompt">>, <<"prompt", "banner">>,
     <<"banner", "write">>, <<"write", "settle">>, <<"settle", "capture">>,
     <<"capture", "write">>, <<"capture", "exit">>, <<"exit", "close">>,
     <<"close", "returned">>, <<"returned", "idle">>, <<"raised", "idle">>}

\* the commands written so far, without the exit directive
CommandsWritten == SelectSeq(written, LAMBDA w : w # "exit")

\* C17: within a call the phases follow one another only in the order
\* connect, channel, banner read, then for each command of the list in list
\* order write, settle, capture, then the exit write, then close. A command
\* is written only when the read of every command written before has ended
\* (returned or timed out), so at most one command is outstanding; it is the
\* next command of the list; and the exit directive is written only after the
\* read of the last command. (A new call starts with nothing written.)
C17_PhasesInOrder ==
    [][/\ pc' # pc =>
             \/ <<pc, pc'>> \in PhaseOrder
             \/ Active /\ pc' = "raised" /\ failure' # "none"
       /\ (pc = "capture" /\ pc' = "write") => Len(captured') < Len(commands)
       /\ (pc = "capture" /\ pc' = "exit") => Len(captured') = Len(commands)
       /\ (pc # "idle" /\ written' # written) =>
             /\ Len(written') = Len(written) + 1
             /\ SubSeq(written', 1, Len(written)) = written
             /\ \/ /\ pc = "write"
                   /\ Len(captured) = Len(written)
                   /\ written'[Len(written')] = commands[Len(written')]
                \/ /\ pc = "exit"
                   /\ pc' = "close"
                   /\ written'[Len(written')] = "exit"
                   /\ written = commands
                   /\ Len(captured) = Len(commands)
       /\ Len(CommandsWritten') - Len(captured') \in {0, 1}
       /\ (pc # "idle" /\ captured' # captured) =>
             /\ pc = "capture"
             /\ Len(captured') = Len(CommandsWritten)]_vars

\* the second of three commands has been written after the read of the
\* first timed out, and the third has not been written yet
C17_Witness ==
    /\ pc = "settle"
    /\ Len(commands) = 3
    /\ written = SubSeq(commands, 1, 2)
    /\ Len(captured) = 1
    /\ captured[1].timeout

\* C20: every call of _execute_multiple_commands and of _execute_ssh_command
\* makes its own connection and leaves none open: a call starts with no
\* connection and no channel, opens a connection only at its connect and a
\* channel only on that connection, and when it returns (also after reads
\* that timed out) or raises, the connection and the channel it opened are
\* closed before its caller goes on.
C20_NoConnectionLeftOpen ==
    [][/\ pc' \in {"idle", "returned", "raised"} =>
             /\ conn' # "open"
             /\ process' # "open"
       /\ (pc = "idle" /\ pc' # "idle") =>
             /\ conn' = "none"
             /\ process' = "none"
             /\ connects' = 0
       /\ (conn' = "open" /\ conn # "open") =>
             /\ pc = "connect"
             /\ conn = "none"
             /\ connects = 0
       /\ process' = "open" => conn' = "open"
       /\ (pc' = "returned" /\ pc # "returned") =>
             /\ conn' = "closed"
             /\ process' = "closed"]_vars

\* a read failed on an open channel, after a read that timed out, and the
\* call raised with the channel and the connection closed
C20_Witness ==
    /\ pc = "raised"
    /\ Len(captured) = 1
    /\ captured[1].timeout
    /\ Len(written) = 2
    /\ conn = "closed"
    /\ process = "closed"

\* ------------------------------------------------------------------------
\* Rate derivation: two sensors, repeated reads, failed polls and the sign
\* of the rate (SpecCursors, Spec)
\* ------------------------------------------------------------------------

\* the snapshot with every key but `key` taken away
Only(d, key) == [k \in DOMAIN d \cap {key} |-> d[k]]

\* C21: a call of native_value on the sensor of one key leaves the stored
\* value, the stored timestamp, the cached rate and the rate reported last of
\* every other sensor as they are; and what the call can return and store is
\* what it could with nothing but its own key in the snapshot.
C21_CursorsNeverInteract ==
    [][\A key \in DOMAIN sensors :
          Called(key) =>
              /\ \A other \in DOMAIN sensors \ {key} :
                    /\ sensors'[other] = sensors[other]
                    /\ reported'[other] = reported[other]
              /\ native_value(key, sensors[key], data, clock, 0)
                     = native_value(key, sensors[key], Only(data, key), clock, 0)
              /\ \E o \in native_value(key, sensors[key], Only(data, key), clock, 0) :
                    /\ sensors'[key] = o.self
                    /\ last_call'.ret = o.ret]_vars

\* the LAN sensor has just reported a rate while the WAN sensor holds a
\* reading of its own, taken at another time
C21_Witness ==
    /\ last_call.key = K_lan_eth1_rx_total_bytes
    /\ last_call.branch = "speed"
    /\ last_call.ret \notin {None, Some(0)}
    /\ Stored(K_wan_ppp_rx_total_bytes)
    /\ sensors[K_wan_ppp_rx_total_bytes].last_update
           # sensors[K_lan_eth1_rx_total_bytes].last_update
    /\ sensors[K_wan_ppp_rx_total_bytes].last_value
           # sensors[K_lan_eth1_rx_total_bytes].last_value

\* C22 (as stated): a second or later read of native_value while the
\* coordinator holds the same snapshot (no refresh since the read before)
\* returns what the read before returned and leaves the stored value and
\* timestamp as that read left them.
C22_ReadsAreIdempotent ==
    [][\A key \in DOMAIN sensors :
          (/\ Called(key)
           /\ last_call.key = key
           /\ last_call.branch # "none"
           /\ last_call.error = "none")
          => /\ last_call'.error = "none"
             /\ last_call'.ret = last_call.ret
             /\ Cursors(sensors')[key] = Cursors(sensors)[key]]_vars

\* C25: whatever has been observed (rising values, counter resets, a clock
\* that stands still or goes back, missing keys), what a call of native_value
\* returns is None or a rate that is not negative, and so is the rate each
\* sensor reported last and the rate it holds cached.
C25_RateNeverNegative ==
    /\ last_call.ret = None \/ last_call.ret[1] >= 0
    /\ \A key \in DOMAIN sensors :
          /\ reported[key] = None \/ reported[key][1] >= 0
          /\ sensors[key].cached = None \/ sensors[key].cached[1] >= 0

\* a counter that had risen, and had a positive rate reported, went back, and
\* the call that saw it reported 0
C25_Witness ==
    /\ last_call.branch = "reset"
    /\ last_call.ret = Some(0)
    /\ \E key \in DOMAIN sensors :
          /\ key = last_call.key
          /\ sensors[key].cached # None
          /\ sensors[key].cached[1] > 0
          /\ reported[key] = Some(0)

\* the keys a refresh of the model can put in a snapshot
SnapshotKeys(outcomes) == UNION {DOMAIN get_all_data(s) : s \in outcomes}

\* C24: while the last refresh is one whose session failed, the snapshot is
\* empty, so it holds no key of an earlier refresh; every sensor of a key, of
\* either class, is not available; native_value of a MitrastarSensor is None;
\* and a read of native_value of a speed sensor returns None, whatever rate
\* the sensor reported before.
C24_NothingStaleAfterFailure ==
    last_poll.raised =>
        /\ data = EmptyDict
        /\ \A key \in SnapshotKeys(PollOutcomes) \cup DOMAIN sensors :
              /\ ~Available(key, last_update_success, data)
              /\ SensorValue(key, data) = None
        /\ \A key \in DOMAIN sensors :
              \A o \in native_value(key, sensors[key], data, clock, 0) :
                  o.ret = None /\ o.error = "none"
        /\ last_call.branch # "none" => last_call.ret = None

\* a sensor that had reported a positive rate was read after a failed
\* refresh and returned None
C24_Witness ==
    /\ last_poll.raised
    /\ data = EmptyDict
    /\ last_call.branch = "absent"
    /\ \E key \in DOMAIN sensors :
          /\ key = last_call.key
          /\ reported[key] \notin {None, Some(0)}
          /\ key \in SnapshotKeys(PollOutcomes)

\* ------------------------------------------------------------------------
\* The onboarding flow: the claims (SpecOnboarding)
\* ------------------------------------------------------------------------

\* C23 (as stated): the flow creates a config entry only when the connection
\* test succeeded: when the session of test_connection raised, or the output
\* of lasercheck has no "Rx Optical Power", async_step_user shows the form
\* again with cannot_connect and creates no entry.
C23_EntryOnlyAfterSuccessfulTest ==
    /\ flow.type = "create_entry" =>
          ~session.raised /\ HasRxPower(session.results)
    /\ (/\ flow.type = "form"
        /\ pc = "idle"
        /\ caller = "test_connection"
        /\ (session.raised \/ ~HasRxPower(session.results)))
          => flow.errors = "cannot_connect"

====
